---- MODULE Spec2Model ----
(***************************************************************************)
(* The Symbol Field Renderer of matrix-mapper (components/RealityMapper):  *)
(* the render effect, its requestAnimationFrame loop and the per-frame     *)
(* pass over the luma / energy / edge grids and the rain columns.          *)
(*                                                                         *)
(* The source holds two builds of the component.  Variant "A" (lines       *)
(* 37-489) is the energy/rain engine, variant "B" (lines 506-810) the      *)
(* calibrated-luma engine.  `variant` selects the build; both share the    *)
(* loop, the canvas and the luma buffers.                                  *)
(*                                                                         *)
(* Numbers.  Float cells are fixed-point integers with Unit units in 1.0   *)
(* and a store into a Float32Array rounds to the nearest unit.  Rain       *)
(* positions are in tenths of a cell.  Math.random() is k / RandSteps.     *)
(***************************************************************************)
EXTENDS Integers, Sequences, FiniteSets, Bags, TLC

VARIABLES
    variant,       \* "A" | "B": which build of the component runs
    phase,         \* render effect: "new" (not yet run) | "live" | "gone"
    effGen,        \* number of render-effect instances started so far
    rafPending,    \* requestAnimationFrame callbacks waiting to fire
    animationRef,  \* animationRef.current (0 is null)
    client,        \* canvas.clientWidth / clientHeight (layout)
    canvas,        \* canvas.width / canvas.height
    smallCanvas,   \* smallCanvas.width / height: the sampled frame's size
    props,         \* the component's props
    video,         \* the video element: readyState, videoWidth, videoHeight
    scene,         \* what the camera currently shows
    drops,         \* dropsRef.current (<<>> is null)
    energy,        \* energyBufferRef.current (<<>> is null)
    prevLuma,      \* prevLumaBufferRef / prevLumaRef
    currentLuma,   \* currentLumaBufferRef / lumaBufferRef
    edges,         \* the edge value of every cell of the last processed frame
    frameCount,    \* frameCountRef.current
    rainPhase,     \* rainPhaseRef.current, in steps of 0.05 (variant B)
    cal,           \* calRef.current (variant B)
    screen,        \* what the last frame drew: per cell, the glyph and fillStyle
    lastPass,      \* what the last call of render() did: "none" | "skip" | "frame"
    probe,         \* a single cell under the energy update, for the numeric laws
    cellProbe,     \* a single cell under pass 2: its inputs and what is drawn
    app,           \* the App component: mode, logs, the scan, isRecording
    cam,           \* the camera effect: its instances, streams, video.srcObject
    rec            \* the recorder: mediaRecorderRef, recordedChunksRef

vars == <<variant, phase, effGen, rafPending, animationRef, client, canvas,
          smallCanvas, props, video, scene, drops, energy, prevLuma,
          currentLuma, edges, frameCount, rainPhase, cal, screen, lastPass,
          probe, cellProbe, app, cam, rec>>

engine == <<drops, energy, prevLuma, currentLuma, edges, frameCount,
            rainPhase, cal, smallCanvas>>

\* The renderer, its environment and the probes
mapper == <<variant, phase, effGen, rafPending, animationRef, client, canvas,
            props, video, scene, engine, screen, lastPass, probe, cellProbe>>

\* What surrounds the renderer: the App and the mapper's camera and recorder
shell == <<app, cam, rec>>

-----------------------------------------------------------------------------
(* Bounds of the model *)

MaxCols == 4
MaxRows == 3
MaxSpan == 1
MaxLoopFrames == 2
MaxFrames == 3
MaxGridFrames == 2
MaxResize == 3
MaxEffects == 2
RandSteps == 2
MaxK == 3
ScenarioSize == 4
ScenarioFrames == 5
MaxExposureFrames == 19
MaxTick == 4
GainSteps == 4
MaxGainFrames == 3
MaxSettingFrames == 4
MaxLogs == 102
MaxScanLogs == 6
MaxInits == 3
MaxRefreshes == 1
MaxRecordLogs == 3
ProbeSteps == 20

-----------------------------------------------------------------------------
(* Numbers *)

Unit == 10000

Abs(x) == IF x < 0 THEN -x ELSE x
Min(a, b) == IF a < b THEN a ELSE b
Max(a, b) == IF a > b THEN a ELSE b

\* a / b rounded to the nearest integer (b > 0)
RoundDiv(a, b) == (a + b \div 2) \div b

\* Math.ceil(a / b) for a >= 0, b > 0
CeilDiv(a, b) == (a + b - 1) \div b

Zeros(n) == [i \in 1..n |-> 0]

\* a * b of two fixed-point numbers
Mul(a, b) == RoundDiv(a * b, Unit)

\* Math.floor(a / b) for b > 0
FloorDiv(a, b) == a \div b

\* The smallest r in lo..hi with f5(r) >= x, by bisection; Pow5 is r^5
Pow5(r) == Mul(Mul(Mul(Mul(r, r), r), r), r)
RECURSIVE Root5In(_, _, _)
Root5In(x, lo, hi) ==
    IF lo >= hi THEN hi
    ELSE LET mid == (lo + hi) \div 2
         IN  IF Pow5(mid) >= x THEN Root5In(x, lo, mid)
             ELSE Root5In(x, mid + 1, hi)

\* x^(1/5) for x in [0, 1]
Root5(x) == Root5In(x, 0, Unit)

RECURSIVE SqrtIn(_, _, _)
SqrtIn(x, lo, hi) ==
    IF lo >= hi THEN hi
    ELSE LET mid == (lo + hi) \div 2
         IN  IF mid * mid >= x * Unit THEN SqrtIn(x, lo, mid)
             ELSE SqrtIn(x, mid + 1, hi)

\* x^(1/2) for x in [0, 1]
Sqrt(x) == SqrtIn(x, 0, Unit)

\* x^(g / 10) for x in [0, 1] and the exponents 1.5, 1.8 and 2.2 of the
\* adaptive gamma: x * x^(1/2), x * (x^(1/5))^4, x^2 * x^(1/5)
PowGamma(x, g) ==
    IF g = 15 THEN Mul(x, Sqrt(x))
    ELSE IF g = 18
         THEN LET r == Root5(x) IN Mul(x, Mul(Mul(r, r), Mul(r, r)))
         ELSE Mul(Mul(x, x), Root5(x))

PI == 31416

\* sin z for z in [0, pi/2]: the Taylor series to z^9, in Horner form
SinQuadrant(z) ==
    LET z2 == Mul(z, z)
        t4 == Unit - FloorDiv(z2, 72)
        t3 == Unit - FloorDiv(Mul(z2, t4), 42)
        t2 == Unit - FloorDiv(Mul(z2, t3), 20)
        t1 == Unit - FloorDiv(Mul(z2, t2), 6)
    IN  Mul(z, t1)

\* sin(x) for x >= 0
SinOf(x) ==
    LET y == x % (2 * PI)
        z == IF y > PI THEN y - PI ELSE y
        q == IF 2 * z > PI THEN PI - z ELSE z
    IN  IF y > PI THEN -SinQuadrant(q) ELSE SinQuadrant(q)

\* The arguments the first frames give Math.sin (frameTick * 0.1 in variant A,
\* col * 0.3 + rainPhase in variant B), and their sines, computed once
SinArgs ==
    { c * 3000 + t * 500 : c \in 0..MaxCols, t \in 0..(2 * MaxExposureFrames) }
SinTable == [x \in SinArgs |-> SinOf(x)]

\* Math.sin(x)
MathSin(x) == IF x \in SinArgs THEN SinTable[x] ELSE SinOf(x)

HAVE_NOTHING == 0
HAVE_CURRENT_DATA == 2
HAVE_ENOUGH_DATA == 4

FONT_SIZE == 8

-----------------------------------------------------------------------------
(* The camera's picture.  A pixel is <<r, g, b>>; a scene is a background, *)
(* and one spot of another colour at grid position <<x, y>> (or none).     *)

Black == <<0, 0, 0>>
Dim == <<20, 20, 20>>
Mid == <<128, 128, 128>>
White == <<255, 255, 255>>
Green == <<0, 255, 0>>

NoSpot == <<-1, -1>>

\* smallCtx.drawImage(video, sx, sy, sw, sh, 0, 0, cols, rows) followed by
\* getImageData: the cols x rows pixels, row-major.  smallCanvas.width = cols
\* has just cleared the small canvas to transparent black, and drawImage
\* draws nothing when the source rectangle is empty or not finite, which is
\* what the crop computes from a zero videoWidth or videoHeight.
Sample(cols, rows) ==
    [i \in 1..(cols * rows) |->
        IF video.videoWidth = 0 \/ video.videoHeight = 0 THEN Black
        ELSE IF scene.spot = <<(i - 1) % cols, (i - 1) \div cols>>
             THEN scene.fg ELSE scene.bg]

\* (r * 0.2126 + g * 0.7152 + b * 0.0722) / 255
Luma709(px) == RoundDiv(px[1] * 2126 + px[2] * 7152 + px[3] * 722, 255)

\* The lumas of the pictures' pixels, and their powers, computed once
PixelLumas == { Luma709(px) : px \in {Black, Dim, Mid, White, Green} }
GammaTable == [x \in PixelLumas |-> [g \in {15, 18, 22} |-> PowGamma(x, g)]]

\* Math.pow(x, g / 10)
MathPow(x, g) == IF x \in PixelLumas THEN GammaTable[x][g] ELSE PowGamma(x, g)

-----------------------------------------------------------------------------
(* Variant A, pass 1: the energy field *)

\* 0.5 + (decayScale / 100) * 0.3
BaseDecay(decayScale) == 5000 + 30 * decayScale

\* 0.05 + (streamTrailDecayScale / 100) * 0.93
StreamDecayFactor(streamTrailDecayScale) == 500 + 93 * streamTrailDecayScale

attack == 4000
BRIGHT_LUMA == 6000
MOTION_DELTA == 1000
HIGH_ENERGY == 3000

\* if (luma > 0.6 || delta > 0.1) target = 1.0
Target(luma, prev) ==
    IF luma > BRIGHT_LUMA \/ Abs(luma - prev) > MOTION_DELTA THEN Unit ELSE 0

\* EnergyStep with the attack added whole: energyGrid[i] += attack
EnergyStepAdditive(e, luma, prev, sf, bf) ==
    LET target == Target(luma, prev)
    IN  IF target > e
        THEN e + attack
        ELSE RoundDiv(e * (IF e > HIGH_ENERGY THEN sf ELSE bf), Unit)

\* EnergyStep with the two decay factors the wrong way round
EnergyStepSwapped(e, luma, prev, sf, bf) ==
    LET target == Target(luma, prev)
    IN  IF target > e
        THEN e + RoundDiv((target - e) * attack, Unit)
        ELSE RoundDiv(e * (IF e > HIGH_ENERGY THEN bf ELSE sf), Unit)

\* EnergyStep easing towards the target in both directions
EnergyStepSymmetric(e, luma, prev, sf, bf) ==
    e + RoundDiv((Target(luma, prev) - e) * attack, Unit)

\* One cell of pass 1: e is energyGrid[i], prev is prevLuma[i], sf and bf are
\* streamDecayFactor and baseDecay.  The result is the value stored back.
EnergyStep(e, luma, prev, sf, bf) ==
    LET target == Target(luma, prev)
    IN  IF target > e
        THEN e + RoundDiv((target - e) * attack, Unit)
        ELSE RoundDiv(e * (IF e > HIGH_ENERGY THEN sf ELSE bf), Unit)

-----------------------------------------------------------------------------
(* Edges *)

\* EdgeA without the test of the column
EdgeARowsOnly(lum, i, cols, rows) ==
    LET cy == i \div cols
    IN  IF cy > 0 /\ cy < rows - 1
        THEN Abs(4 * lum[i + 1] - lum[i] - lum[i + 2]
                 - lum[i + 1 - cols] - lum[i + 1 + cols])
        ELSE 0

\* EdgeA without the weight of the centre cell
EdgeAUnweighted(lum, i, cols, rows) ==
    LET cx == i % cols
        cy == i \div cols
    IN  IF cx > 0 /\ cx < cols - 1 /\ cy > 0 /\ cy < rows - 1
        THEN Abs(lum[i + 1] - lum[i] - lum[i + 2]
                 - lum[i + 1 - cols] - lum[i + 1 + cols])
        ELSE 0

\* Variant A: the Laplacian of cell i (0-based) of a cols x rows luma grid
EdgeA(lum, i, cols, rows) ==
    LET cx == i % cols
        cy == i \div cols
    IN  IF cx > 0 /\ cx < cols - 1 /\ cy > 0 /\ cy < rows - 1
        THEN Abs(4 * lum[i + 1] - lum[i] - lum[i + 2]
                 - lum[i + 1 - cols] - lum[i + 1 + cols])
        ELSE 0

\* Variant B: edges = new Float32Array(numCells), written for r in 1..rows-2
\* and c in 1..cols-2 only
EdgesB(lum, cols, rows) ==
    [j \in 1..(cols * rows) |->
        IF \E r \in 1..(rows - 2), c \in 1..(cols - 2) : r * cols + c = j - 1
        THEN Abs(4 * lum[j] - lum[j - 1] - lum[j + 1]
                 - lum[j - cols] - lum[j + cols])
        ELSE 0]

-----------------------------------------------------------------------------
(* Variant A: the rain columns, in tenths of a cell *)

Rand == 0..(RandSteps - 1)

DROP_SPEED == 4
RESET_OFFSET == 200
RESET_JITTER == 500

\* dropsRef.current[i] = Math.random() * -rows
InitialDrop(k, rows) == -((k * rows * 10) \div RandSteps)

FreshDrops(cols, rows) ==
    { [i \in 1..cols |-> InitialDrop(r[i], rows)] : r \in [1..cols -> Rand] }

\* drops[i] = -20 - (Math.random() * 50)
ResetDrop(k) == -RESET_OFFSET - ((k * RESET_JITTER) \div RandSteps)

\* if (drops[i] > rows), after drops[i] += 0.4
PastEnd(d, rows) == d > rows * 10

ResetCols(d, rows) == { i \in 1..Len(d) : PastEnd(d[i] + DROP_SPEED, rows) }

\* StreamUpdate starting every column again from the top
StreamUpdateRestart(d, rows, rnd) == [i \in 1..Len(d) |-> InitialDrop(0, rows)]

\* The Vertical Stream Update loop; rnd gives Math.random() for the columns
\* that reset.
StreamUpdate(d, rows, rnd) ==
    [i \in 1..Len(d) |->
        IF PastEnd(d[i] + DROP_SPEED, rows) THEN ResetDrop(rnd[i])
        ELSE d[i] + DROP_SPEED]

-----------------------------------------------------------------------------
(* Variant B: calibrated luma and auto exposure *)

Clamp01(x) == Max(0, Min(Unit, x))

TARGET_MEAN == 4500
GAIN_MIN == 7000
GAIN_MAX == 15000

\* calibrated = clamp01((raw + cal.offset) * cal.gain) * cal.exposureGain
CalibratedLuma(raw, c) ==
    RoundDiv(Clamp01(RoundDiv((raw + c.offset) * c.gain, Unit)) * c.exposureGain,
             Unit)

RECURSIVE SumSeq(_)
SumSeq(s) == IF s = <<>> THEN 0 ELSE s[1] + SumSeq(Tail(s))

\* NextExposureGain without the clamp
NextExposureGainUnclamped(gain, mean) ==
    gain + RoundDiv(TARGET_MEAN - mean, 100)

\* cal.exposureGain += (targetMean - cal.signalMean) * 0.01, then clamped
NextExposureGain(gain, mean) ==
    Max(GAIN_MIN, Min(GAIN_MAX, gain + RoundDiv(TARGET_MEAN - mean, 100)))

\* motion = prevLuma[i] ? Math.abs(luma[i] - prevLuma[i]) : 0
MotionB(l, p) == IF p # 0 THEN Abs(l - p) ELSE 0

\* cal.motionHistory[i] * 0.7 + motion * 0.3
NextMotionHistory(mh, motion) == RoundDiv(mh * 7 + motion * 3, 10)


-----------------------------------------------------------------------------
(* Variant A, pass 2: glyph and colour of a cell.  Colour values are in      *)
(* hundredths of a byte until the integer clamp.                            *)

\* adaptiveGamma = avgLuma < 0.3 ? 2.2 : (avgLuma > 0.7 ? 1.5 : 1.8), times 10
AdaptiveGamma(avgLuma) ==
    IF avgLuma < 3000 THEN 22 ELSE IF avgLuma > 7000 THEN 15 ELSE 18

\* brightModulator = 0.4 + Math.sin(frameTick * 0.1) * 0.3
BrightModulator(frameTick) == 4000 + Mul(MathSin(frameTick * 1000), 3000)

\* structure = lumaNorm * (1.8 - lumaNorm), times brightModulator when
\* lumaNorm > 0.6
Structure(lumaNorm, frameTick) ==
    LET s == Mul(lumaNorm, 18000 - lumaNorm)
    IN  IF lumaNorm > 6000 THEN Mul(s, BrightModulator(frameTick)) ELSE s

RAIN_TRAIL == 150
RAIN_HEAD == 20

\* dist = drops[cx] - cy; isRain = dist > 0 && dist < 15
IsRain(dropY, cy) == dropY - cy * 10 > 0 /\ dropY - cy * 10 < RAIN_TRAIL

\* isRainHead = dist > 0 && dist < 2
IsRainHead(dropY, cy) == dropY - cy * 10 > 0 /\ dropY - cy * 10 < RAIN_HEAD

\* In sixteenths
bayerMatrix ==
    << <<0, 8, 2, 10>>, <<12, 4, 14, 6>>, <<3, 11, 1, 9>>, <<15, 7, 13, 5>> >>

\* bayerMatrix[cy % 4][cx % 4], in sixteenths
BayerEntry(cx, cy) == bayerMatrix[(cy % 4) + 1][(cx % 4) + 1]

GLYPH_ENERGY == 5000
GLYPH_EDGE == 1500

\* ((i + frameTick) & 4) ? "1" : "0"
RainGlyph(i, frameTick) == IF ((i + frameTick) \div 4) % 2 = 1 THEN "1" ELSE "0"

\* lumaNorm > bayerThreshold ? "1" : "0"
DitherGlyph(lumaNorm, entry) == IF lumaNorm > 625 * entry THEN "1" ELSE "0"

\* The last branch of the glyph selection: the structure tiers
TierGlyph(structure, entry) ==
    IF structure > 6000 THEN "1"
    ELSE IF structure > 2500
         THEN (IF structure > 500 * entry + 1000 THEN "1" ELSE "0")
    ELSE IF structure > 800
         THEN (IF 2 * structure > 1875 * entry THEN "0" ELSE " ")
    ELSE " "

\* GlyphA with the rain trail tested before the energy
GlyphARainFirst(e, lumaNorm, structure, edge, rain, i, cx, cy, frameTick) ==
    IF rain THEN RainGlyph(i, frameTick)
    ELSE IF e > GLYPH_ENERGY THEN DitherGlyph(lumaNorm, BayerEntry(cx, cy))
    ELSE IF edge > GLYPH_EDGE THEN "1"
    ELSE TierGlyph(structure, BayerEntry(cx, cy))

\* GlyphA without the edge branch
GlyphANoEdge(e, lumaNorm, structure, edge, rain, i, cx, cy, frameTick) ==
    IF e > GLYPH_ENERGY THEN DitherGlyph(lumaNorm, BayerEntry(cx, cy))
    ELSE IF rain THEN RainGlyph(i, frameTick)
    ELSE TierGlyph(structure, BayerEntry(cx, cy))

\* GlyphA with the dither comparison the wrong way round
GlyphADitherInverted(e, lumaNorm, structure, edge, rain, i, cx, cy, frameTick) ==
    IF e > GLYPH_ENERGY
    THEN (IF lumaNorm > 625 * BayerEntry(cx, cy) THEN "0" ELSE "1")
    ELSE IF rain THEN RainGlyph(i, frameTick)
    ELSE IF edge > GLYPH_EDGE THEN "1"
    ELSE TierGlyph(structure, BayerEntry(cx, cy))

\* The glyph selection: char
GlyphA(e, lumaNorm, structure, edge, rain, i, cx, cy, frameTick) ==
    IF e > GLYPH_ENERGY THEN DitherGlyph(lumaNorm, BayerEntry(cx, cy))
    ELSE IF rain THEN RainGlyph(i, frameTick)
    ELSE IF edge > GLYPH_EDGE THEN "1"
    ELSE TierGlyph(structure, BayerEntry(cx, cy))

\* (x > 255 ? 255 : (x < 0 ? 0 : x)) | 0
ClampByte(x) == Max(0, Min(25500, x)) \div 100

\* Natural Mode: fillStyle = rgb(fr, fg, fb)
NaturalColor(px, e, lumaNorm) ==
    LET saturation == 4000 + RoundDiv(6 * e, 10)
        lumaByte == RoundDiv(255 * lumaNorm, 100)
        exposure == 8000 + RoundDiv(e, 2)
        ar(c) == Mul(RoundDiv(c * saturation, 100)
                     + Mul(lumaByte, Unit - saturation), exposure)
        cold == e < 3000
    IN  << ClampByte(ar(px[1]) - (IF cold THEN 500 ELSE 0)),
           ClampByte(ar(px[2])),
           ClampByte(ar(px[3]) + (IF cold THEN 1500 ELSE 0)) >>

\* Terminal Mode: fillStyle = rgb(totalRB, totalG, totalRB); the clamp is
\* (x > 255 ? 255 : x) | 0
TerminalColor(e, structure, edge, rain, head) ==
    LET val == 2400 + RoundDiv(180 * structure, 100)
               + (IF edge > 1000
                  THEN RoundDiv(150 * Mul(edge, 5000 + structure), 100) ELSE 0)
        digitalGreen == RoundDiv(220 * e, 100)
        rainGreen == IF ~rain THEN 0
                     ELSE IF head THEN 3000 + RoundDiv(180 * structure, 100)
                     ELSE 1200 + RoundDiv(72 * structure, 100)
        rainHighlight == IF rain /\ head /\ structure > 3000
                         THEN RoundDiv(120 * structure, 100) ELSE 0
        bloom == e > 7500
        totalG == val + digitalGreen + rainGreen + (IF bloom THEN 6000 ELSE 0)
        totalRB == rainHighlight
                   + (IF bloom THEN RoundDiv((e - 7500) * 600, 100) ELSE 0)
        g == Min(25500, totalG) \div 100
        rb == Min(25500, totalRB) \div 100
    IN  <<rb, g, rb>>

\* What pass 2 draws for cell i (0-based): fillStyle and fillText
CellA(i, px, gamma, e, edge, d, cols, frameTick, showColor) ==
    LET cx == i % cols
        cy == i \div cols
        lumaNorm == MathPow(Luma709(px), gamma)
        structure == Structure(lumaNorm, frameTick)
        rain == IsRain(d[cx + 1], cy)
        head == IsRainHead(d[cx + 1], cy)
    IN  [char |-> GlyphA(e, lumaNorm, structure, edge, rain, i, cx, cy, frameTick),
         rgb |-> IF showColor THEN NaturalColor(px, e, lumaNorm)
                 ELSE TerminalColor(e, structure, edge, rain, head),
         isRainHead |-> head]

-----------------------------------------------------------------------------
(* Variant B: glyph and colour of a cell *)

SHOW_LUMA == 800

\* The colour mapping of variant B: r, g, b from the brightness, unclamped
ColorB(brightness) ==
    IF brightness > 8000
    THEN LET w == FloorDiv(brightness - 8000, 10) IN <<w, 255, w>>
    ELSE IF brightness > 5000
    THEN LET green == (brightness - 5000) * 510
         IN  <<FloorDiv(green, 4 * Unit), FloorDiv(green, Unit),
               FloorDiv(green, 4 * Unit)>>
    ELSE IF brightness > 2500
    THEN <<FloorDiv(brightness * 3825, 100 * Unit),
           FloorDiv(brightness * 21675, 100 * Unit),
           FloorDiv(brightness * 3825, 100 * Unit)>>
    ELSE <<FloorDiv(brightness * 18, Unit), FloorDiv(brightness * 180, Unit),
           FloorDiv(brightness * 18, Unit)>>

\* What the render loop draws for the cell at (row, col); steps is
\* rainPhaseRef.current in steps of 0.05.  A cell with l <= 0.08 is not drawn
\* and stays as fillRect left it.
CellB(row, col, l, edge, motion, steps) ==
    IF l > SHOW_LUMA
    THEN LET b1 == IF edge > 1000 THEN Min(Unit, l + RoundDiv(3 * edge, 2))
                   ELSE l
             b2 == IF motion > 500 THEN Min(Unit, b1 + 2 * motion) ELSE b1
             shimmer == 9000 + RoundDiv(MathSin(col * 3000 + steps * 500), 10)
         IN  [char |-> IF (row + col + (steps \div 10)) % 2 = 0 THEN "1"
                       ELSE "0",
              rgb |-> ColorB(Mul(b2, shimmer)),
              isRainHead |-> FALSE]
    ELSE [char |-> " ", rgb |-> <<0, 0, 0>>, isRainHead |-> FALSE]

-----------------------------------------------------------------------------
(* The grid geometry *)

\* Variant A: fontSize = Math.max(5, Math.round(gridSize)); variant B: FONT_SIZE
FontSize(pr) == IF variant = "A" THEN Max(5, pr.gridSize) ELSE FONT_SIZE

\* Variant B: canvas.clientWidth || 800, canvas.clientHeight || 600
DisplayWidth == IF variant = "B" /\ client.w = 0 THEN 800 ELSE client.w
DisplayHeight == IF variant = "B" /\ client.h = 0 THEN 600 ELSE client.h

Cols(pr) == CeilDiv(DisplayWidth, FontSize(pr))
Rows(pr) == CeilDiv(DisplayHeight, FontSize(pr))

-----------------------------------------------------------------------------
(* The render pass: the body of render() up to requestAnimationFrame *)

\* Variant A, the branch under video.readyState === video.HAVE_ENOUGH_DATA
ProcessA(pr) ==
    LET cols == Cols(pr)
        rows == Rows(pr)
        numCells == cols * rows
        sf == StreamDecayFactor(pr.streamTrailDecayScale)
        bf == BaseDecay(pr.decayScale)
        pixels == Sample(cols, rows)
    IN  /\ canvas' = [width |-> DisplayWidth, height |-> DisplayHeight]
        /\ frameCount' = frameCount + 1
        /\ IF cols > 0 /\ rows > 0
           THEN LET fresh == Len(energy) # numCells
                    e0 == IF fresh THEN Zeros(numCells) ELSE energy
                    p0 == IF fresh THEN Zeros(numCells) ELSE prevLuma
                    lum == [i \in 1..numCells |-> Luma709(pixels[i])]
                IN  /\ smallCanvas' = [width |-> cols, height |-> rows]
                    /\ currentLuma' = lum
                    /\ prevLuma' = lum
                    /\ energy' = [i \in 1..numCells |->
                                    EnergyStep(e0[i], lum[i], p0[i], sf, bf)]
                    /\ edges' = [i \in 1..numCells |->
                                    EdgeA(lum, i - 1, cols, rows)]
           ELSE UNCHANGED <<smallCanvas, currentLuma, prevLuma, energy, edges>>
        /\ \E d0 \in (IF Len(drops) # cols THEN FreshDrops(cols, rows)
                      ELSE {drops}) :
             \E rnd \in [ResetCols(d0, rows) -> Rand] :
                drops' = StreamUpdate(d0, rows, rnd)
        /\ IF cols > 0 /\ rows > 0
           THEN \E gamma \in {AdaptiveGamma(
                                  RoundDiv(SumSeq(currentLuma'), numCells))} :
                  screen' = [i \in 1..numCells |->
                               CellA(i - 1, pixels[i], gamma, energy'[i],
                                     edges'[i], drops', cols, frameCount + 1,
                                     pr.showColor)]
           ELSE screen' = IF canvas' # canvas THEN <<>> ELSE screen
        /\ UNCHANGED <<rainPhase, cal>>

\* RenderA with frameCountRef.current++ outside the readiness test
RenderACounting(pr) ==
    IF video.readyState = HAVE_ENOUGH_DATA
    THEN ProcessA(pr)
    ELSE /\ frameCount' = frameCount + 1
         /\ UNCHANGED <<canvas, drops, energy, prevLuma, currentLuma, edges,
                        rainPhase, cal, smallCanvas, screen>>

RenderA(pr) ==
    IF video.readyState = HAVE_ENOUGH_DATA
    THEN ProcessA(pr)
    ELSE UNCHANGED <<canvas, engine, screen>>

\* Variant B, the branch under smallCtx && cols > 0 && rows > 0 &&
\* video.readyState >= 2
ProcessB(cols, rows) ==
    LET numCells == cols * rows
        pixels == Sample(cols, rows)
        fresh == Len(currentLuma) # numCells
        p0 == IF fresh THEN Zeros(numCells) ELSE prevLuma
        lum == [i \in 1..numCells |-> CalibratedLuma(Luma709(pixels[i]), cal)]
        mean == RoundDiv(SumSeq(lum), numCells)
        mh0 == IF Len(cal.motionHistory) # numCells THEN Zeros(numCells)
               ELSE cal.motionHistory
    IN  /\ smallCanvas' = [width |-> cols, height |-> rows]
        /\ currentLuma' = lum
        /\ cal' = [cal EXCEPT
                     !.signalMean = mean,
                     !.exposureGain = NextExposureGain(cal.exposureGain, mean),
                     !.motionHistory = [i \in 1..numCells |->
                         NextMotionHistory(mh0[i], MotionB(lum[i], p0[i]))]]
        /\ edges' = EdgesB(lum, cols, rows)
        /\ frameCount' = frameCount + 1
        /\ rainPhase' = rainPhase + 1
        /\ screen' = [i \in 1..numCells |->
                        CellB((i - 1) \div cols, (i - 1) % cols, lum[i],
                              edges'[i], MotionB(lum[i], p0[i]), rainPhase + 1)]
        /\ prevLuma' = lum
        /\ UNCHANGED <<drops, energy>>

RenderB(pr) ==
    /\ canvas' = [width |-> DisplayWidth, height |-> DisplayHeight]
    /\ IF Cols(pr) > 0 /\ Rows(pr) > 0 /\ video.readyState >= HAVE_CURRENT_DATA
       THEN ProcessB(Cols(pr), Rows(pr))
       ELSE UNCHANGED engine /\ screen' = <<>>

\* Whether render() takes its frame branch now
Ready(pr) ==
    IF variant = "A" THEN video.readyState = HAVE_ENOUGH_DATA
    ELSE Cols(pr) > 0 /\ Rows(pr) > 0 /\ video.readyState >= HAVE_CURRENT_DATA

Render(pr) ==
    /\ IF variant = "A" THEN RenderA(pr) ELSE RenderB(pr)
    /\ lastPass' = IF Ready(pr) THEN "frame" ELSE "skip"

-----------------------------------------------------------------------------
(* requestAnimationFrame *)

PendingIds(pending) == { cb.id : cb \in pending }

\* The handle requestAnimationFrame returns: one that names no other pending
\* callback and is not the one animationRef still holds.
FreshId(pending) ==
    CHOOSE n \in 1..(Cardinality(pending) + 2) :
        n \notin PendingIds(pending) /\ n # animationRef

\* animationRef.current = requestAnimationFrame(render), at the end of render()
Schedule(pending, gen, pr) ==
    LET id == FreshId(pending)
    IN  /\ rafPending' = pending \cup {[id |-> id, gen |-> gen, props |-> pr]}
        /\ animationRef' = id

\* Cleanup without the cancelAnimationFrame
CleanupNoCancel(pending) == pending

\* The effect's cleanup:
\* if (animationRef.current) cancelAnimationFrame(animationRef.current)
Cleanup(pending) ==
    IF animationRef # 0 THEN { cb \in pending : cb.id # animationRef }
    ELSE pending


-----------------------------------------------------------------------------
(* The environment's choices *)

\* Layout sizes in pixels: k cells of the default cell size
CellPx == IF variant = "A" THEN 10 ELSE FONT_SIZE
Sizes(maxW, maxH) ==
    { [w |-> a * CellPx, h |-> b * CellPx] : a \in 0..maxW, b \in 0..maxH }

\* The grids of variant B stay small: its 800 x 600 fallback for an unlaid-out
\* canvas is modelled (DisplayWidth) but not entered.
SmallGrid(c) == variant = "B" => c.w > 0 /\ c.h > 0

GridSizes == {12, 20}
StreamTrailDecays == {0, 100}
DecayScales == {12, 30}
Sensitivities == {60, 85}
DeviceIds == {"", "cam1"}

\* App (types.ts 35-51, 238-253): the props the mapper is first rendered with
DefaultProps ==
    [gridSize |-> 12, sensitivity |-> 85, decayScale |-> 12,
     streamTrailDecayScale |-> 0, showColor |-> FALSE, selectedDeviceId |-> ""]

\* One setting changed: the props that differ from pr in one dependency of the
\* render effect ([gridSize, sensitivity, decayScale, streamTrailDecayScale,
\* showColor] in variant A, [selectedDeviceId, cameraReady] in variant B).
OneChange(pr) ==
    (IF variant = "A"
     THEN { [pr EXCEPT !.gridSize = g] : g \in GridSizes }
          \cup { [pr EXCEPT !.sensitivity = x] : x \in Sensitivities }
          \cup { [pr EXCEPT !.decayScale = x] : x \in DecayScales }
          \cup { [pr EXCEPT !.streamTrailDecayScale = x] : x \in StreamTrailDecays }
          \cup { [pr EXCEPT !.showColor = ~pr.showColor] }
     ELSE { [pr EXCEPT !.selectedDeviceId = x] : x \in DeviceIds })
    \ {pr}

VideoStates ==
    { [readyState |-> r, videoWidth |-> d[1], videoHeight |-> d[2]] :
        r \in {HAVE_NOTHING, HAVE_CURRENT_DATA, HAVE_ENOUGH_DATA},
        d \in {<<0, 0>>, <<640, 0>>, <<640, 480>>} }

\* videoWidth and videoHeight are 0 while readyState is HAVE_NOTHING
VideoOk(v) == v.readyState = HAVE_NOTHING => v.videoWidth = 0 /\ v.videoHeight = 0

Uniform(px) == [bg |-> px, fg |-> px, spot |-> NoSpot]
Spot(px, x, y) == [bg |-> Black, fg |-> px, spot |-> <<x, y>>]

-----------------------------------------------------------------------------
(* The App component.  The source holds three builds of it: "full"          *)
(* (types.ts 24-330: scan, recording, camera menu, log cap 50), "panel"     *)
(* (App.tsx 8-318: the settings panel, log cap 100) and "minimal" (App.tsx  *)
(* 324-378: the camera menu only); and two builds of analyzeSector:         *)
(* "throwing" (services/geminiService.ts) and "fallback" (the build with    *)
(* the offline analysis logs).                                              *)

KEEP_LAST == 49
PANEL_CAP == 100

\* s.slice(-n) for n > 0
LastEntries(s, n) == SubSeq(s, Max(1, Len(s) - n + 1), Len(s))

\* setLogs(prev => [...prev.slice(-49), newLog])
AppendFull(prev, newLog) == Append(LastEntries(prev, KEEP_LAST), newLog)

\* setLogs(prev => { const updated = [...prev, newLog];
\*   if (updated.length > 100) return updated.slice(updated.length - 100);
\*   return updated; })
AppendPanel(prev, newLog) ==
    LET updated == Append(prev, newLog)
    IN  IF Len(updated) > PANEL_CAP THEN LastEntries(updated, PANEL_CAP)
        ELSE updated

\* AddLog keeping one entry more than the cap
AddLogOneMore(a, message, type) ==
    LET newLog == [id |-> a.logged + 1, message |-> message, type |-> type]
        updated == Append(a.logs, newLog)
    IN  [a EXCEPT !.logged = @ + 1,
                  !.logs = IF a.build = "panel"
                           THEN LastEntries(updated, PANEL_CAP + 1)
                           ELSE Append(LastEntries(@, KEEP_LAST + 1), newLog)]

\* addLog(message, type) on the App state a.  The entry's id is a random
\* string in the source; here it is the number of the call.
AddLog(a, message, type) ==
    LET newLog == [id |-> a.logged + 1, message |-> message, type |-> type]
    IN  [a EXCEPT !.logged = @ + 1,
                  !.logs = IF a.build = "panel" THEN AppendPanel(@, newLog)
                           ELSE AppendFull(@, newLog)]

\* The App before its mount effect: useState initial values.  scan is the
\* position of handleScan's task: "none" | "timer" (setTimeout pending) |
\* "await" (awaiting analyzeSector) | "rejected" (its promise rejected);
\* trail lists the setMode calls of the scan in progress or last finished.
\* refreshes is the bag of the refreshDevices calls awaiting enumerateDevices,
\* each the selectedCamera its closure captured.
InitApp(build, service) ==
    [build |-> build, service |-> service, mode |-> "IDLE", scan |-> "none",
     trail |-> <<>>, logs |-> <<>>, logged |-> 0, isRecording |-> FALSE,
     videoDevices |-> <<>>, selectedCamera |-> "", refreshes |-> EmptyBag]

\* What enumerateDevices can report
Microphone == [kind |-> "audioinput", deviceId |-> "mic1", label |-> "Microphone"]
FrontCam == [kind |-> "videoinput", deviceId |-> "cam1", label |-> "Front Camera"]
BackCam == [kind |-> "videoinput", deviceId |-> "cam2", label |-> "Back Camera"]

DeviceLists ==
    { <<Microphone>>, <<Microphone, FrontCam>>, <<FrontCam, Microphone, BackCam>> }

\* The mapper's camera before its effect has run.  phase is the camera
\* effect's "new" | "live" | "gone"; devices is what the browser would
\* enumerate; inits are the calls of initSensors, one per run of the effect,
\* with the selectedDeviceId its closure holds ("" again once the call has
\* returned), the effect's isCancelled, the place the call has reached, the
\* stream getUserMedia gave it ("none" | "live" | "stopped"; late: given
\* when the instance was already cancelled; attached: it has been the video
\* element's srcObject) and whether the effect's activeStream holds it;
\* srcObject is the instance whose stream the video element holds (0 is
\* null); cameraError "" is null.
InitCam ==
    [phase |-> "new", devices |-> <<Microphone, FrontCam>>, inits |-> <<>>,
     srcObject |-> 0, cameraError |-> "", cameraReady |-> FALSE]

\* The mapper's recorder before any recording.  mediaRecorder is
\* mediaRecorderRef.current (0 is null, else a recorder's number);
\* recordedChunks is recordedChunksRef.current, each chunk with the recorder
\* it came from; recorders are the MediaRecorders built so far, with their
\* mimeType and state ("recording" | "stopping": stop() called, its
\* dataavailable and stop events pending | "inactive");
\* results are what the stopRecording promises resolved with (null, or the
\* blob's chunks and type), with the recorder ("of") each call stopped.
InitRec ==
    [mediaRecorder |-> 0, recordedChunks |-> <<>>, recorders |-> <<>>,
     results |-> <<>>]

InitShell ==
    /\ app = InitApp("full", "throwing")
    /\ cam = InitCam
    /\ rec = InitRec

-----------------------------------------------------------------------------
(* The state after construction: refs hold their initial values, the render *)
(* effect has not run.                                                      *)

InitCal ==
    [darkLevel |-> 200, whiteLevel |-> 9500, gain |-> Unit, offset |-> 0,
     exposureGain |-> Unit, signalMean |-> 5000, motionHistory |-> <<>>]

NoProbe == [luma |-> 0, prev0 |-> 0, sf |-> 0, bf |-> 0, tr |-> <<>>]

NoCell == [drawn |-> FALSE]

InitRefs ==
    /\ phase = "new"
    /\ effGen = 0
    /\ rafPending = {}
    /\ animationRef = 0
    /\ canvas = [width |-> 300, height |-> 150]
    /\ smallCanvas = [width |-> 0, height |-> 0]
    /\ drops = <<>>
    /\ energy = <<>>
    /\ prevLuma = <<>>
    /\ currentLuma = <<>>
    /\ edges = <<>>
    /\ frameCount = 0
    /\ rainPhase = 0
    /\ cal = InitCal
    /\ screen = <<>>
    /\ lastPass = "none"

Init ==
    /\ InitShell
    /\ variant \in {"A", "B"}
    /\ InitRefs
    /\ client \in { c \in Sizes(MaxSpan, MaxSpan) : SmallGrid(c) }
    /\ props = DefaultProps
    /\ video = [readyState |-> HAVE_NOTHING, videoWidth |-> 0, videoHeight |-> 0]
    /\ scene = Uniform(Black)
    /\ probe = NoProbe
    /\ cellProbe = NoCell

-----------------------------------------------------------------------------
(* The render effect and its loop *)

\* The effect runs: render() is called once, synchronously, and schedules the
\* next frame.
StartEffect(pr, pending) ==
    /\ phase' = "live"
    /\ effGen' = effGen + 1
    /\ Render(pr)
    /\ Schedule(pending, effGen + 1, pr)

\* First run of the render effect after mount
Mount ==
    /\ phase = "new"
    /\ StartEffect(props, rafPending)
    /\ UNCHANGED <<variant, client, props, video, scene, probe, cellProbe, shell>>

\* A pending callback fires: one render pass of the effect that scheduled it
Tick(maxFrames) ==
    /\ \E cb \in rafPending :
         /\ Ready(cb.props) => frameCount < maxFrames
         /\ Render(cb.props)
         /\ Schedule(rafPending \ {cb}, cb.gen, cb.props)
    /\ UNCHANGED <<variant, phase, effGen, client, props, video, scene, probe,
                   cellProbe, shell>>

\* A dependency of the render effect changes: cleanup, then the effect again
SetProps(maxFrames) ==
    /\ phase = "live"
    /\ effGen < MaxEffects
    /\ \E np \in OneChange(props) :
         /\ Ready(np) => frameCount < maxFrames
         /\ props' = np
         /\ StartEffect(np, Cleanup(rafPending))
    /\ UNCHANGED <<variant, client, video, scene, probe, cellProbe, shell>>

\* The component unmounts: the effect's cleanup
Unmount ==
    /\ phase = "live"
    /\ phase' = "gone"
    /\ rafPending' = Cleanup(rafPending)
    /\ UNCHANGED <<variant, effGen, animationRef, client, canvas, props, video,
                   scene, engine, screen,
                   lastPass, probe, cellProbe, shell>>

\* The layout gives the canvas another size
Resize(maxW, maxH) ==
    /\ phase # "gone"
    /\ \E c \in Sizes(maxW, maxH) : SmallGrid(c) /\ c # client /\ client' = c
    /\ UNCHANGED <<variant, phase, effGen, rafPending, animationRef, canvas,
                   props, video, scene, engine, screen,
                   lastPass, probe, cellProbe, shell>>

\* The video element's state changes
VideoChange ==
    /\ phase # "gone"
    /\ \E v \in VideoStates : VideoOk(v) /\ v # video /\ video' = v
    /\ UNCHANGED <<variant, phase, effGen, rafPending, animationRef, client,
                   canvas, props, scene, engine, screen,
                   lastPass, probe, cellProbe, shell>>

\* The camera's picture changes
SceneChange(S) ==
    /\ phase # "gone"
    /\ \E sc \in S : sc # scene /\ scene' = sc
    /\ UNCHANGED <<variant, phase, effGen, rafPending, animationRef, client,
                   canvas, props, video, engine, screen,
                   lastPass, probe, cellProbe, shell>>

UniformScenes == { Uniform(px) : px \in {Black, White} }

\* The loop under a changing video element and changing settings, on a canvas
\* of a fixed size
Next ==
    \/ Mount
    \/ Tick(MaxLoopFrames)
    \/ SetProps(MaxLoopFrames)
    \/ Unmount
    \/ VideoChange
    \/ SceneChange(UniformScenes)

Spec == Init /\ [][Next]_vars

-----------------------------------------------------------------------------
(* The engine on a ready video and a canvas of a fixed size, frame after     *)
(* frame under a changing picture                                            *)

ReadyVideo ==
    [readyState |-> HAVE_ENOUGH_DATA, videoWidth |-> 640, videoHeight |-> 480]

FrameScenes ==
    { Uniform(px) : px \in {Black, Dim, Mid, White, Green} }
    \cup { Spot(px, 0, 0) : px \in {Mid, White} }

InitFrames ==
    /\ InitShell
    /\ variant \in {"A", "B"}
    /\ InitRefs
    /\ client \in { c \in Sizes(MaxSpan, MaxSpan) : SmallGrid(c) }
    /\ \E s \in StreamTrailDecays, d \in DecayScales :
          props = [DefaultProps EXCEPT !.streamTrailDecayScale = s,
                                       !.decayScale = d]
    /\ video = ReadyVideo
    /\ scene \in FrameScenes
    /\ probe = NoProbe
    /\ cellProbe = NoCell

NextFrames ==
    \/ Mount
    \/ Tick(MaxFrames)
    \/ SceneChange(FrameScenes)

SpecFrames == InitFrames /\ [][NextFrames]_vars

-----------------------------------------------------------------------------
(* The engine on a ready video, one grid and one picture per behaviour: every *)
(* grid size up to MaxCols x MaxRows, every position of a bright spot.        *)

SpotScenes ==
    { Spot(px, x, y) : px \in {White, Mid},
                       x \in 0..(MaxCols - 1), y \in 0..(MaxRows - 1) }
    \cup { Uniform(px) : px \in {Black, Mid, White} }

InitGrid ==
    /\ InitShell
    /\ variant \in {"A", "B"}
    /\ InitRefs
    /\ client \in { c \in Sizes(MaxCols, MaxRows) : SmallGrid(c) }
    /\ props = DefaultProps
    /\ video = ReadyVideo
    /\ scene \in SpotScenes
    /\ probe = NoProbe
    /\ cellProbe = NoCell

NextGrid ==
    \/ Mount
    \/ Tick(MaxGridFrames)

SpecGrid == InitGrid /\ [][NextGrid]_vars

-----------------------------------------------------------------------------
(* The engine on a ready video under a changing canvas size *)

InitResize ==
    /\ InitShell
    /\ variant \in {"A", "B"}
    /\ InitRefs
    /\ client \in { c \in Sizes(MaxResize, MaxResize) : SmallGrid(c) }
    /\ props = DefaultProps
    /\ video = ReadyVideo
    /\ scene \in UniformScenes
    /\ probe = NoProbe
    /\ cellProbe = NoCell

NextResize ==
    \/ Mount
    \/ Tick(MaxGridFrames)
    \/ Resize(MaxResize, MaxResize)

SpecResize == InitResize /\ [][NextResize]_vars

-----------------------------------------------------------------------------
(* The end-to-end scenarios: a square grid of ScenarioSize cells a side on a *)
(* ready video that shows one uniform picture on every frame, in either     *)
(* colour mode, from every initial rain offset.                             *)

InitScenario ==
    /\ InitShell
    /\ variant \in {"A", "B"}
    /\ InitRefs
    /\ client = [w |-> ScenarioSize * CellPx, h |-> ScenarioSize * CellPx]
    /\ \E c \in BOOLEAN : props = [DefaultProps EXCEPT !.showColor = c]
    /\ video = ReadyVideo
    /\ scene \in UniformScenes
    /\ probe = NoProbe
    /\ cellProbe = NoCell

NextScenario ==
    \/ Mount
    \/ Tick(ScenarioFrames)

SpecScenario == InitScenario /\ [][NextScenario]_vars

-----------------------------------------------------------------------------
(* The engine on a ready video and a canvas of one cell, in a dark room in   *)
(* which the light is switched on: the picture is black, and turns white at *)
(* some frame.                                                              *)

InitExposure ==
    /\ InitShell
    /\ variant \in {"A", "B"}
    /\ InitRefs
    /\ client = [w |-> CellPx, h |-> CellPx]
    /\ \E c \in BOOLEAN : props = [DefaultProps EXCEPT !.showColor = c]
    /\ video = ReadyVideo
    /\ scene = Uniform(Black)
    /\ probe = NoProbe
    /\ cellProbe = NoCell

NextExposure ==
    \/ Mount
    \/ Tick(MaxExposureFrames)
    \/ SceneChange({Uniform(White)})

SpecExposure == InitExposure /\ [][NextExposure]_vars

-----------------------------------------------------------------------------
(* One cell under pass 1, frame after frame on the same picture: probe.tr   *)
(* is the cell's energy before the first frame and after each frame.  The   *)
(* inputs are every starting energy on a grid of ProbeSteps steps, the luma *)
(* of the picture (luma) and of the frame before the first (prev0), and the decay factors of the  *)
(* settings; NoDecay is the pair (1, 1), "decay disabled", which no setting *)
(* in 0..100 produces.                                                      *)

ProbeLumas == { Luma709(px) : px \in {Black, Dim, Mid, White, Green} }

ProbeEnergies == { (k * Unit) \div ProbeSteps : k \in 0..ProbeSteps }

NoDecay == <<Unit, Unit>>

ProbeFactors ==
    { <<StreamDecayFactor(s), BaseDecay(d)>> :
        s \in StreamTrailDecays, d \in DecayScales \cup {0, 100} }
    \cup {NoDecay}

InitProbe ==
    /\ InitShell
    /\ variant = "A"
    /\ InitRefs
    /\ client = [w |-> 0, h |-> 0]
    /\ props = DefaultProps
    /\ video = [readyState |-> HAVE_NOTHING, videoWidth |-> 0, videoHeight |-> 0]
    /\ scene = Uniform(Black)
    /\ cellProbe = NoCell
    /\ \E l \in ProbeLumas, p \in ProbeLumas, f \in ProbeFactors,
          e \in ProbeEnergies :
          probe = [luma |-> l, prev0 |-> p, sf |-> f[1], bf |-> f[2],
                   tr |-> <<e>>]

\* prevLuma[i] as the next frame finds it: pass 1 stores the frame's luma
ProbePrev == IF Len(probe.tr) = 1 THEN probe.prev0 ELSE probe.luma

\* Pass 1 on the cell
ProbeFrame ==
    /\ Len(probe.tr) <= MaxK
    /\ probe' = [probe EXCEPT
                   !.tr = Append(probe.tr,
                                 EnergyStep(probe.tr[Len(probe.tr)], probe.luma,
                                            ProbePrev, probe.sf, probe.bf))]
    /\ UNCHANGED <<variant, phase, effGen, rafPending, animationRef, client,
                   canvas, props, video, scene, engine, screen,
                   lastPass, cellProbe, shell>>

SpecProbe == InitProbe /\ [][ProbeFrame]_vars

-----------------------------------------------------------------------------
(* One cell left to decay (a black picture, no motion) under every Stream   *)
(* Persistence setting of the slider                                        *)

MAX_SETTING == 100

Persistence == 0..MAX_SETTING

InitPersistence ==
    /\ InitShell
    /\ variant = "A"
    /\ InitRefs
    /\ client = [w |-> 0, h |-> 0]
    /\ props = DefaultProps
    /\ video = [readyState |-> HAVE_NOTHING, videoWidth |-> 0, videoHeight |-> 0]
    /\ scene = Uniform(Black)
    /\ cellProbe = NoCell
    /\ \E p \in Persistence, d \in DecayScales, e \in ProbeEnergies :
          probe = [luma |-> 0, prev0 |-> 0, sf |-> StreamDecayFactor(p),
                   bf |-> BaseDecay(d), tr |-> <<e>>]

SpecPersistence == InitPersistence /\ [][ProbeFrame]_vars

-----------------------------------------------------------------------------
(* One cell under pass 2 of variant A: the glyph and the colour drawn for   *)
(* every combination of the cell's energy, pixel, edge value, place in the  *)
(* grid and distance to its column's rain drop, at the frame's gamma and    *)
(* frame count.  Pass 1 has run on the cell: a pixel brighter than the      *)
(* brightness threshold has left it at least one attack step of energy.     *)

CellEnergies == {0, attack, GLYPH_ENERGY, GLYPH_ENERGY + 1, Unit}

CellEdges == {0, GLYPH_EDGE, GLYPH_EDGE + 1, 2 * Unit}

\* dropY - cy, in tenths of a cell: above the cell, the head, the trail, past
\* the trail
CellDists == {-10, 4, RAIN_HEAD + 30, RAIN_TRAIL}

CellPixels == {Black, Dim, Mid, White, Green}

BayerSize == Len(bayerMatrix)

InitCell ==
    /\ InitShell
    /\ variant = "A"
    /\ InitRefs
    /\ client = [w |-> 0, h |-> 0]
    /\ props = DefaultProps
    /\ video = [readyState |-> HAVE_NOTHING, videoWidth |-> 0, videoHeight |-> 0]
    /\ scene = Uniform(Black)
    /\ probe = NoProbe
    /\ \E e \in CellEnergies, px \in CellPixels, g \in {15, 18, 22},
          edge \in CellEdges, dist \in CellDists,
          cx \in 0..(BayerSize - 1), cy \in 0..(BayerSize - 1),
          t \in 1..MaxTick, c \in BOOLEAN :
          /\ Luma709(px) > BRIGHT_LUMA => e >= attack
          /\ cellProbe = [drawn |-> FALSE, e |-> e, px |-> px, gamma |-> g,
                          edge |-> edge, dropY |-> cy * 10 + dist,
                          cx |-> cx, cy |-> cy, frameTick |-> t,
                          showColor |-> c, out |-> <<>>]

\* Pass 2 on the cell, in a grid of BayerSize columns
DrawCell ==
    /\ ~cellProbe.drawn
    /\ cellProbe' =
          [cellProbe EXCEPT
              !.drawn = TRUE,
              !.out = CellA(cellProbe.cy * BayerSize + cellProbe.cx,
                            cellProbe.px, cellProbe.gamma, cellProbe.e,
                            cellProbe.edge,
                            [c \in 1..BayerSize |-> cellProbe.dropY],
                            BayerSize, cellProbe.frameTick,
                            cellProbe.showColor)]
    /\ UNCHANGED <<variant, phase, effGen, rafPending, animationRef, client,
                   canvas, props, video, scene, engine, screen, lastPass,
                   probe, shell>>

SpecCell == InitCell /\ [][DrawCell]_vars

-----------------------------------------------------------------------------
(* The auto exposure of variant B from every exposure gain of its range: a  *)
(* canvas of one row, a ready video, a uniform picture that may change.     *)

ExposureGains ==
    { GAIN_MIN + (k * (GAIN_MAX - GAIN_MIN)) \div GainSteps : k \in 0..GainSteps }

GainScenes == { Uniform(px) : px \in {Black, Dim, Mid, White} }

InitGain ==
    /\ InitShell
    /\ variant = "B"
    /\ phase = "new"
    /\ effGen = 0
    /\ rafPending = {}
    /\ animationRef = 0
    /\ canvas = [width |-> 300, height |-> 150]
    /\ smallCanvas = [width |-> 0, height |-> 0]
    /\ drops = <<>>
    /\ energy = <<>>
    /\ prevLuma = <<>>
    /\ currentLuma = <<>>
    /\ edges = <<>>
    /\ frameCount = 0
    /\ rainPhase = 0
    /\ \E g \in ExposureGains : cal = [InitCal EXCEPT !.exposureGain = g]
    /\ screen = <<>>
    /\ lastPass = "none"
    /\ client \in { [w |-> a * CellPx, h |-> CellPx] : a \in 1..2 }
    /\ props = DefaultProps
    /\ video = ReadyVideo
    /\ scene \in GainScenes
    /\ probe = NoProbe
    /\ cellProbe = NoCell

NextGain ==
    \/ Mount
    \/ Tick(MaxGainFrames)
    \/ SceneChange(GainScenes)

SpecGain == InitGain /\ [][NextGain]_vars

-----------------------------------------------------------------------------
(* The energy/rain build on a ready video and a canvas two cells wide, under *)
(* changing settings and a changing picture                                  *)

InitSettings ==
    /\ InitShell
    /\ variant = "A"
    /\ InitRefs
    /\ client = [w |-> 2 * CellPx, h |-> CellPx]
    /\ props = DefaultProps
    /\ video = ReadyVideo
    /\ scene \in UniformScenes
    /\ probe = NoProbe
    /\ cellProbe = NoCell

NextSettings ==
    \/ Mount
    \/ Tick(MaxSettingFrames)
    \/ SetProps(MaxSettingFrames)
    \/ SceneChange(UniformScenes)

SpecSettings == InitSettings /\ [][NextSettings]_vars

-----------------------------------------------------------------------------
(* The App around a mapper that has not started: the renderer is at rest in *)
(* the specifications of the App, the camera and the recorder.              *)

InitMapper ==
    /\ InitRefs
    /\ client = [w |-> 0, h |-> 0]
    /\ props = DefaultProps
    /\ video = [readyState |-> HAVE_NOTHING, videoWidth |-> 0, videoHeight |-> 0]
    /\ scene = Uniform(Black)
    /\ probe = NoProbe
    /\ cellProbe = NoCell

-----------------------------------------------------------------------------
(* The log of the full and the panel App under a run of addLog calls *)

InitLogs ==
    /\ variant = "A"
    /\ InitMapper
    /\ \E b \in {"full", "panel"} : app = InitApp(b, "throwing")
    /\ cam = InitCam
    /\ rec = InitRec

\* One of the App's handlers calls addLog
LogEvent ==
    /\ app.logged < MaxLogs
    /\ app' = AddLog(app, "Video Sync: CALIBRATED", "system")
    /\ UNCHANGED <<mapper, cam, rec>>

SpecLogs == InitLogs /\ [][LogEvent]_vars

-----------------------------------------------------------------------------
(* The scan of the full App: handleScan, its timer and the analysis call,   *)
(* with either build of analyzeSector                                       *)

InitScan ==
    /\ variant = "A"
    /\ InitMapper
    /\ \E s \in {"throwing", "fallback"} : app = InitApp("full", s)
    /\ cam = InitCam
    /\ rec = InitRec

\* setMode(m) during a scan
SetMode(a, m) == [a EXCEPT !.mode = m, !.trail = Append(@, m)]

\* handleScan: the Audit button (or a call while the button is disabled)
HandleScan ==
    /\ app.mode = "IDLE" => app.logged < MaxScanLogs
    /\ IF app.mode # "IDLE"
       THEN UNCHANGED app
       ELSE app' = [SetMode(AddLog([app EXCEPT !.trail = <<>>],
                                   "Extracting spatial primitives...", "input"),
                            "SCANNING")
                      EXCEPT !.scan = "timer"]
    /\ UNCHANGED <<mapper, cam, rec>>

\* The setTimeout callback, up to its await: setMode(ANALYZING), getSnapshot;
\* without a snapshot it goes on to setMode(IDLE).  snapshot is whether
\* realityMapperRef.current?.getSnapshot() gave a data URL.
ScanTimeout ==
    /\ app.scan = "timer"
    /\ \E snapshot \in BOOLEAN :
         app' = IF snapshot
                THEN [SetMode(app, "ANALYZING") EXCEPT !.scan = "await"]
                ELSE [SetMode(SetMode(app, "ANALYZING"), "IDLE")
                        EXCEPT !.scan = "none"]
    /\ UNCHANGED <<mapper, cam, rec>>

\* analyzeSector settles.  answered is whether the generateContent call
\* returned; when it did not, the throwing build throws and the callback's
\* promise rejects at the await, the fallback build returns an offline log.
ScanSettle ==
    /\ app.scan = "await"
    /\ \E answered \in BOOLEAN :
         app' = IF answered
                THEN [SetMode(AddLog(app, "tactical assessment", "analysis"),
                              "IDLE") EXCEPT !.scan = "none"]
                ELSE IF app.service = "fallback"
                THEN [SetMode(AddLog(app, "[LOCAL_OVERRIDE]", "analysis"),
                              "IDLE") EXCEPT !.scan = "none"]
                ELSE [app EXCEPT !.scan = "rejected"]
    /\ UNCHANGED <<mapper, cam, rec>>

NextScan ==
    \/ HandleScan
    \/ ScanTimeout
    \/ ScanSettle

SpecScan == InitScan /\ [][NextScan]_vars

-----------------------------------------------------------------------------
(* The camera: the mapper's camera effect in either build, and the device   *)
(* menu of the full and the minimal App.  s is the pair of the App's and    *)
(* the camera's state, [app |-> ..., cam |-> ...].                          *)

\* devices.filter(device => device.kind === 'videoinput')
VideoInputs(devices) == SelectSeq(devices, LAMBDA d : d.kind = "videoinput")

\* d.label.toLowerCase().includes('back') || ...includes('rear')
MentionsBack(label) == label \in {"Back Camera", "REAR wide"}

\* back?.deviceId || videoInputs[0].deviceId
DefaultCamera(videoInputs) ==
    LET backs == { i \in 1..Len(videoInputs) : MentionsBack(videoInputs[i].label) }
        back == CHOOSE i \in backs : \A j \in backs : i <= j
    IN  IF backs # {} /\ videoInputs[back].deviceId # ""
        THEN videoInputs[back].deviceId
        ELSE videoInputs[1].deviceId

\* The camera effect's cleanup, for the instance that is running
CameraCleanup(c) ==
    IF c.inits = <<>> THEN c
    ELSE LET i == Len(c.inits)
         IN  [c EXCEPT !.inits[i].isCancelled = TRUE,
                       !.inits[i].stream =
                           IF c.inits[i].activeStream THEN "stopped" ELSE @]

\* The camera effect's body: initSensors() up to its first await
CameraEffect(c, selectedDeviceId) ==
    [c EXCEPT !.cameraError = "",
              !.inits = Append(@, [device |-> selectedDeviceId,
                                   isCancelled |-> FALSE,
                                   at |-> "getUserMedia",
                                   activeStream |-> FALSE,
                                   stream |-> "none", late |-> FALSE,
                                   attached |-> FALSE])]

\* A dependency of the camera effect changed: cleanup, then the effect again
CameraRerun(c, selectedDeviceId) ==
    CameraEffect(CameraCleanup(c), selectedDeviceId)

\* setSelectedCamera(id), and the render that follows: the mapper's
\* selectedDeviceId prop is the App's selectedCamera
SetSelectedCamera(s, id) ==
    IF s.cam.phase # "live" \/ id = s.app.selectedCamera THEN s
    ELSE [app |-> [s.app EXCEPT !.selectedCamera = id],
          cam |-> CameraRerun(s.cam, id)]

\* A call of refreshDevices, up to its await; seen is the selectedCamera of
\* the render whose refreshDevices is called
RefreshDevices(s, seen) ==
    [s EXCEPT !.app.refreshes = @ (+) SetToBag({seen})]

\* enumerateDevices of a refreshDevices call has settled
Settled(s, seen) ==
    [s EXCEPT !.app.refreshes = @ (-) SetToBag({seen})]

\* A refreshDevices call after enumerateDevices has resolved with devices
RefreshContinue(s, seen, devices) ==
    LET videoInputs == VideoInputs(devices)
        t == [Settled(s, seen) EXCEPT !.app.videoDevices =
                           IF s.cam.phase = "live" THEN videoInputs ELSE @]
    IN  IF Len(videoInputs) > 0 /\ seen = ""
        THEN SetSelectedCamera(t, DefaultCamera(videoInputs))
        ELSE t

\* initSensors attaching every stream it is given, cancelled or not
ObtainedUnchecked(s, i) ==
    LET init == s.cam.inits[i]
        t == [s EXCEPT !.cam.inits[i] =
                           [@ EXCEPT !.stream = "live",
                                     !.late = init.isCancelled,
                                     !.attached = TRUE,
                                     !.activeStream = TRUE,
                                     !.device = IF variant = "A" THEN "" ELSE @,
                                     !.at = IF variant = "A" THEN "done" ELSE "play"],
                       !.cam.srcObject = i]
    IN  IF variant = "A" THEN RefreshDevices(t, init.device) ELSE t

\* initSensors of instance i after getUserMedia has resolved: the stream is
\* stopped when the instance is cancelled, else kept and, with the video
\* element there, attached and played.  Variant A goes on to
\* onStreamActive, variant B awaits play().
Obtained(s, i) ==
    LET init == s.cam.inits[i]
        videoRef == s.cam.phase = "live"
        t == IF init.isCancelled
             THEN [s EXCEPT !.cam.inits[i] =
                                [@ EXCEPT !.stream = "stopped", !.late = TRUE,
                                          !.device = "", !.at = "dropped"]]
             ELSE [s EXCEPT !.cam.inits[i] =
                                [@ EXCEPT !.stream = "live",
                                          !.activeStream = TRUE,
                                          !.attached = videoRef,
                                          !.device = IF videoRef /\ variant = "B"
                                                     THEN @ ELSE "",
                                          !.at = IF videoRef /\ variant = "B"
                                                 THEN "play" ELSE "done"],
                            !.cam.srcObject = IF videoRef THEN i ELSE @]
    IN  IF ~init.isCancelled /\ videoRef /\ variant = "A"
        THEN RefreshDevices(t, init.device)
        ELSE t

\* The catch block of initSensors of instance i with the message for err:
\* variant A sets the error unless the instance is cancelled, variant B sets
\* it whenever the component is still there
Caught(c, i, message) ==
    [c EXCEPT !.inits[i].at = "failed",
              !.inits[i].device = "",
              !.cameraError =
                  IF c.phase = "live" /\ (variant = "B" \/ ~c.inits[i].isCancelled)
                  THEN message ELSE @]

\* err.name === 'NotAllowedError' ? "ACCESS DENIED" : "SENSOR_ERROR" (A);
\* err.message || err.name || "Camera not available" (B)
ErrorMessage(err) ==
    IF variant = "A"
    THEN (IF err.name = "NotAllowedError" THEN "ACCESS DENIED" ELSE "SENSOR_ERROR")
    ELSE IF err.message # "" THEN err.message
    ELSE IF err.name # "" THEN err.name
    ELSE "Camera not available"

Errors ==
    { [name |-> "NotAllowedError", message |-> ""],
      [name |-> "", message |-> ""] }

\* The bounds of a camera run
CameraBounded(s) ==
    /\ Len(s.cam.inits) <= MaxInits
    /\ BagCardinality(s.app.refreshes) <= MaxRefreshes

Now == [app |-> app, cam |-> cam]

Becomes(s) ==
    /\ CameraBounded(s)
    /\ app' = s.app
    /\ cam' = s.cam
    /\ UNCHANGED <<mapper, rec>>

InitCamera ==
    /\ variant \in {"A", "B"}
    /\ InitMapper
    /\ \E b \in {"full", "minimal"} : app = InitApp(b, "throwing")
    /\ \E d \in DeviceLists : cam = [InitCam EXCEPT !.devices = d]
    /\ rec = InitRec

\* The first render's effects: the mapper's camera effect, then the App's
\* mount effect (its logs in the full App, refreshDevices, the devicechange
\* listener)
MountCamera ==
    /\ cam.phase = "new"
    /\ LET a == IF app.build = "full"
                THEN AddLog(AddLog(AddLog(app, "SIGHT_OS V9.6 STABLE LOADED", "system"),
                                   "Binary Mapping: REALISTIC_LOGIC", "system"),
                            "Video Sync: CALIBRATED", "system")
                ELSE app
           c == CameraEffect([cam EXCEPT !.phase = "live"], a.selectedCamera)
       IN  Becomes(RefreshDevices([app |-> a, cam |-> c], ""))

\* The camera menu: onChange={(e) => setSelectedCamera(e.target.value)}
SelectCamera ==
    /\ cam.phase = "live"
    /\ \E k \in 1..Len(app.videoDevices) :
         /\ app.videoDevices[k].deviceId # app.selectedCamera
         /\ Becomes(SetSelectedCamera(Now, app.videoDevices[k].deviceId))

\* A device is plugged or unplugged: the devicechange listener the mount
\* effect registered calls the first render's refreshDevices
DeviceChange ==
    /\ cam.phase = "live"
    /\ \E d \in DeviceLists \ {cam.devices} :
         Becomes(RefreshDevices([Now EXCEPT !.cam.devices = d], ""))

\* enumerateDevices of a refreshDevices call settles; when it rejects the
\* call only logs to the console
RefreshSettle ==
    \E seen \in BagToSet(app.refreshes) :
        \/ Becomes(RefreshContinue(Now, seen, cam.devices))
        \/ Becomes(Settled(Now, seen))

\* getUserMedia of an initSensors call resolves
AcquireResolve ==
    \E i \in 1..Len(cam.inits) :
        /\ cam.inits[i].at \in {"getUserMedia", "fallback"}
        /\ Becomes(Obtained(Now, i))

\* getUserMedia of an initSensors call rejects: variant B tries once more
\* with { video: true }
AcquireReject ==
    \E i \in 1..Len(cam.inits), err \in Errors :
        /\ cam.inits[i].at \in {"getUserMedia", "fallback"}
        /\ IF variant = "B" /\ cam.inits[i].at = "getUserMedia"
           THEN Becomes([Now EXCEPT !.cam.inits[i].at = "fallback"])
           ELSE Becomes([Now EXCEPT !.cam = Caught(@, i, ErrorMessage(err))])

\* Variant B: await videoRef.current.play() resolves; setCameraReady(true)
\* and, cameraReady being a dependency of the camera effect, its rerun;
\* onStreamActive
PlayResolve ==
    \E i \in 1..Len(cam.inits) :
        /\ cam.inits[i].at = "play"
        /\ LET c == [cam EXCEPT !.inits[i].at = "done", !.inits[i].device = ""]
               ready == IF c.phase = "live" /\ ~c.cameraReady
                        THEN CameraRerun([c EXCEPT !.cameraReady = TRUE],
                                         app.selectedCamera)
                        ELSE c
           IN  Becomes(RefreshDevices([app |-> app, cam |-> ready],
                                      cam.inits[i].device))

\* Variant B: play() rejects
PlayReject ==
    \E i \in 1..Len(cam.inits), err \in Errors :
        /\ cam.inits[i].at = "play"
        /\ Becomes([Now EXCEPT !.cam = Caught(@, i, ErrorMessage(err))])

\* The App unmounts: the camera effect's cleanup; the listener is removed
UnmountCamera ==
    /\ cam.phase = "live"
    /\ Becomes([Now EXCEPT !.cam = [CameraCleanup(@) EXCEPT !.phase = "gone"]])

NextCamera ==
    \/ MountCamera
    \/ SelectCamera
    \/ DeviceChange
    \/ RefreshSettle
    \/ AcquireResolve
    \/ AcquireReject
    \/ PlayResolve
    \/ PlayReject
    \/ UnmountCamera

SpecCamera == InitCamera /\ [][NextCamera]_vars

-----------------------------------------------------------------------------
(* Recording: the record button of the full App and the mapper's            *)
(* startRecording and stopRecording                                         *)

InitRecording ==
    /\ variant = "A"
    /\ InitMapper
    /\ app = InitApp("full", "throwing")
    /\ cam = InitCam
    /\ rec = InitRec

\* What the browser makes of startRecording: "webm" (the first MediaRecorder
\* is built and started), "mp4" (the first attempt throws, the fallback
\* works), "none" (both attempts throw)
RecorderSupport == {"webm", "mp4", "none"}

\* startRecording()
StartRecording(r, support) ==
    IF support = "none" THEN r
    ELSE [r EXCEPT !.recorders =
                       Append(@, [mimeType |-> IF support = "webm"
                                               THEN "video/webm; codecs=vp9"
                                               ELSE "video/mp4",
                                  state |-> "recording"]),
                   !.mediaRecorder = Len(r.recorders) + 1]

\* stopRecording() up to the return of its promise: without a recorder it
\* resolves null, else it sets onstop, stops the recorder and clears the ref
StopRecording(r) ==
    IF r.mediaRecorder = 0
    THEN [r EXCEPT !.results = Append(@, [of |-> 0, null |-> TRUE,
                                          chunks |-> <<>>, type |-> ""])]
    ELSE [r EXCEPT !.recorders[r.mediaRecorder].state = "stopping",
                   !.mediaRecorder = 0]

\* mediaRecorderRef.current?.mimeType || 'video/webm'
MimeType(r) ==
    IF r.mediaRecorder = 0 THEN "video/webm"
    ELSE r.recorders[r.mediaRecorder].mimeType

\* handleToggleRecording, up to its await when it stops a recording
ToggleRecording ==
    /\ ~app.isRecording => app.logged < MaxRecordLogs
    /\ IF app.isRecording
       THEN /\ app' = [app EXCEPT !.isRecording = FALSE]
            /\ rec' = StopRecording(rec)
       ELSE \E support \in RecorderSupport :
              /\ app' = AddLog([app EXCEPT !.isRecording = TRUE],
                               "VIDEO_CAPTURE: STARTED", "system")
              /\ rec' = StartRecording(rec, support)
    /\ UNCHANGED <<mapper, cam>>

\* The task a recorder's stop() queued: dataavailable with the recording's
\* data, kept when not empty, then stop, whose onstop makes the blob of the
\* chunk list, empties the list and resolves the promise;
\* handleToggleRecording goes on to save the blob and log
RecorderStopped ==
    /\ \E k \in 1..Len(rec.recorders), size \in {0, 1} :
         LET chunks == IF size > 0
                       THEN Append(rec.recordedChunks, [from |-> k, size |-> size])
                       ELSE rec.recordedChunks
         IN  /\ rec.recorders[k].state = "stopping"
             /\ rec' = [rec EXCEPT !.recorders[k].state = "inactive",
                                   !.results =
                                       Append(@, [of |-> k, null |-> FALSE,
                                                  chunks |-> chunks,
                                                  type |-> MimeType(rec)]),
                                   !.recordedChunks = <<>>]
    /\ app' = AddLog(app, "VIDEO_CAPTURE: SAVED", "system")
    /\ UNCHANGED <<mapper, cam>>

NextRecording ==
    \/ ToggleRecording
    \/ RecorderStopped

SpecRecording == InitRecording /\ [][NextRecording]_vars

-----------------------------------------------------------------------------
(* Properties *)

\* A call of render() ran in this step: it ends by storing a new handle
PassRan == animationRef' # animationRef

\* The grid of the last processed frame
GridCols == smallCanvas.width
GridRows == smallCanvas.height
Cells == 0..(Len(edges) - 1)

OnBorder(i) ==
    \/ i % GridCols = 0
    \/ i % GridCols = GridCols - 1
    \/ i \div GridCols = 0
    \/ i \div GridCols = GridRows - 1

Neighbours(i) ==
    (IF i % GridCols > 0 THEN {i - 1} ELSE {})
    \cup (IF i % GridCols < GridCols - 1 THEN {i + 1} ELSE {})
    \cup (IF i \div GridCols > 0 THEN {i - GridCols} ELSE {})
    \cup (IF i \div GridCols < GridRows - 1 THEN {i + GridCols} ELSE {})

\* C1: after every processed frame every Energy Grid cell is within [0, 1].
C1_EnergyInRange ==
    \A i \in 1..Len(energy) : energy[i] >= 0 /\ energy[i] <= Unit

\* C1 witness: a cell that has risen and then decayed below one attack step
C1_Witness ==
    /\ frameCount >= 2
    /\ \E i \in 1..Len(energy) : energy[i] > 0 /\ energy[i] < attack

\* What a rain reset leaves behind a reallocation: fresh columns, advanced once
FreshAdvanced(cols, rows) ==
    UNION { { StreamUpdate(d0, rows, rnd) : rnd \in [ResetCols(d0, rows) -> Rand] }
            : d0 \in FreshDrops(cols, rows) }

\* C2 (as claimed): whenever the grid geometry changes between two processed
\* frames, the rain columns and the Energy Grid are both reset before the new
\* frame is processed: the columns are fresh ones advanced once, and every
\* energy is what the frame makes of a zero cell with a zero previous luma.
C2_AtomicReset ==
    [][ (/\ variant = "A"
         /\ PassRan
         /\ lastPass' = "frame"
         /\ smallCanvas.width > 0
         /\ smallCanvas' # smallCanvas)
        => /\ drops' \in FreshAdvanced(smallCanvas'.width, smallCanvas'.height)
           /\ energy' = [i \in 1..Len(energy') |->
                            EnergyStep(0, currentLuma'[i], 0,
                                       StreamDecayFactor(props.streamTrailDecayScale),
                                       BaseDecay(props.decayScale))]
      ]_vars

\* C3: a render pass on a source that is not ready leaves the energy grid, the
\* luma grids, the rain columns, the frame counter and the calibration state
\* unchanged and leaves exactly one callback pending, the one it scheduled;
\* a pass on a ready source processes a frame.
C3_NotReadySkips ==
    [][ PassRan =>
          IF Ready(props')
          THEN frameCount' = frameCount + 1
          ELSE /\ UNCHANGED <<energy, prevLuma, currentLuma, drops, edges,
                              frameCount, rainPhase, cal, smallCanvas>>
               /\ \E cb \in rafPending' :
                     rafPending' = {cb} /\ cb.id = animationRef'
      ]_vars

\* C3 witness: a pass has skipped a source that is not ready, after frames
\* were processed, and its callback is pending
C3_Witness ==
    /\ lastPass = "skip"
    /\ frameCount > 0
    /\ ~Ready(props)
    /\ Cardinality(rafPending) = 1

\* C4 (as claimed): a render pass on a video of zero width or zero height
\* mutates no engine state, whatever the ready flag.
C4_ZeroSizeSkips ==
    [][ (PassRan /\ (video.videoWidth = 0 \/ video.videoHeight = 0))
        => UNCHANGED <<drops, frameCount, energy, prevLuma, currentLuma,
                       rainPhase, cal>>
      ]_vars

\* C5: every pending next-frame callback belongs to the live render effect;
\* after a teardown none of the torn-down effect is left to run.
C5_NoStaleCallback ==
    \A cb \in rafPending : phase = "live" /\ cb.gen = effGen

\* C5 witness: the component is unmounted after a restart of the effect and
\* after frames were processed
C5_Witness ==
    /\ phase = "gone"
    /\ effGen = MaxEffects
    /\ frameCount > 0
    /\ animationRef # 0

\* C6: the edge value of every cell on the outer border of the grid is 0.
C6_BorderEdgesZero ==
    \A i \in Cells : OnBorder(i) => edges[i + 1] = 0

\* C6 witness: a frame with a lit border cell and a non-zero interior edge
C6_Witness ==
    /\ \E i \in Cells : OnBorder(i) /\ currentLuma[i + 1] > 0
    /\ \E i \in Cells : edges[i + 1] > 0

\* Cell i is brighter than the brightness threshold and every other cell of the
\* frame is black
SingleBright(i) ==
    /\ currentLuma[i + 1] > BRIGHT_LUMA
    /\ \A j \in Cells : j # i => currentLuma[j + 1] = 0

\* C7 (as claimed): wherever the single bright cell lies, its edge value is
\* strictly greater than that of each of its neighbours.
C7_BrightCellPeaks ==
    \A i \in Cells :
        SingleBright(i) => \A n \in Neighbours(i) : edges[i + 1] > edges[n + 1]

\* C7 (amended): a single bright cell that is not on the border of the grid
\* has an edge value strictly greater than that of each of its four neighbours.
C7_InteriorBrightCellPeaks ==
    \A i \in Cells :
        (SingleBright(i) /\ ~OnBorder(i))
            => \A n \in Neighbours(i) : edges[i + 1] > edges[n + 1]

\* C7 witness: a single bright interior cell with an interior neighbour
C7_Witness ==
    \E i \in Cells :
        /\ SingleBright(i)
        /\ ~OnBorder(i)
        /\ \E n \in Neighbours(i) : edges[n + 1] > 0

\* The probe's frames so far, and those it entered above the high-energy level
ProbeK == Len(probe.tr) - 1
ProbeAbove == Cardinality({ j \in 1..ProbeK : probe.tr[j] > HIGH_ENERGY })

\* target = 0 on every frame of the probe: no motion, not bright
ProbeQuiet ==
    /\ probe.tr # <<>>
    /\ probe.prev0 = probe.luma
    /\ probe.luma <= BRIGHT_LUMA

\* x * f^n, at Fine times the resolution of a cell
Fine == 10
RECURSIVE Power(_, _, _)
Power(x, f, n) == IF n = 0 THEN x ELSE Power(RoundDiv(x * f, Unit), f, n - 1)

\* e is x within the rounding of k stores
Near(e, x, k) == Abs(Fine * e - x) <= Fine * k

\* C8 (as claimed): with target 0 on k consecutive frames the energy is
\* initial * f^k for one decay factor f of the configuration, at every k.
C8_SingleFactor ==
    ProbeQuiet =>
        \E f \in {probe.sf, probe.bf} :
            \A k \in 1..ProbeK :
                Near(probe.tr[k + 1], Power(Fine * probe.tr[1], f, k), k)

\* C8 (amended): with target 0 on k consecutive frames the energy is
\* initial * s^a * b^(k-a), where s is the stream decay factor, b the base
\* decay factor and a the number of those frames the cell entered with an
\* energy above 0.3.
C8_TwoFactors ==
    ProbeQuiet =>
        Near(probe.tr[ProbeK + 1],
             Power(Power(Fine * probe.tr[1], probe.sf, ProbeAbove),
                   probe.bf, ProbeK - ProbeAbove),
             ProbeK)

\* C8 witness: a decay of MaxK frames that crosses the high-energy level
C8_Witness ==
    /\ ProbeQuiet
    /\ ProbeK = MaxK
    /\ ProbeAbove > 0
    /\ ProbeAbove < ProbeK
    /\ probe.sf # probe.bf
    /\ probe.tr[ProbeK + 1] > 0

\* Two runs on an identical frame with no motion and decay disabled
ProbeTwice ==
    /\ Len(probe.tr) >= 3
    /\ probe.prev0 = probe.luma
    /\ <<probe.sf, probe.bf>> = NoDecay

\* C9 (as claimed): a drop head never moves back until it exceeds
\* rows + margin, and then it is reset into [-margin - maxJitter, -margin],
\* with margin 20 cells and maxJitter 50 cells.
C9_ResetPastMargin ==
    [][ \A i \in 1..Len(drops) :
          Len(drops') = Len(drops) =>
            \/ drops'[i] >= drops[i]
            \/ /\ drops[i] + DROP_SPEED > Rows(props') * 10 + RESET_OFFSET
               /\ drops'[i] >= -RESET_OFFSET - RESET_JITTER
               /\ drops'[i] <= -RESET_OFFSET
      ]_vars

Drawn == 1..Len(screen)

\* C11 (as claimed): on a 4 x 4 grid whose pixels are black on every frame,
\* with the default settings and persistence 0, after 5 processed frames every
\* glyph is blank and every colour channel of every cell is 0, whatever the
\* initial rain offsets.
C11_BlackStaysBlank ==
    (/\ scene = Uniform(Black)
     /\ ~props.showColor
     /\ frameCount = 5)
        => \A i \in Drawn : screen[i].char = " " /\ screen[i].rgb = <<0, 0, 0>>

\* The third frame of a white picture held since the first, variant A
WhiteHeld ==
    /\ variant = "A"
    /\ scene = Uniform(White)
    /\ frameCount = 3

\* C12 (as claimed): on a white 4 x 4 grid held for 3 frames from a zero
\* Energy Grid, after the third frame every cell's energy is at least 0.9 and
\* every glyph is "1".
C12_WhiteReachesNine ==
    WhiteHeld => \A i \in Drawn : energy[i] >= 9000 /\ screen[i].char = "1"

\* C12 (amended): after the third frame every cell's energy is 1 - 0.6^3 =
\* 0.784, which is at least 0.78 and below 0.9, and every glyph is "1".
C12_WhiteLightsUp ==
    WhiteHeld =>
        \A i \in Drawn :
            energy[i] >= 7800 /\ energy[i] < 9000 /\ screen[i].char = "1"

\* C12 witness: the third white frame on the whole scenario grid
C12_Witness ==
    /\ WhiteHeld
    /\ Len(screen) = ScenarioSize * ScenarioSize
    /\ Len(energy) = Len(screen)

\* Pass 1 on a cell with target 0, k frames running
RECURSIVE Decayed(_, _, _, _)
Decayed(e, sf, bf, k) ==
    IF k = 0 THEN e ELSE Decayed(EnergyStep(e, 0, 0, sf, bf), sf, bf, k - 1)

\* The stream decay factor is strictly increasing in the setting and lies
\* strictly between 0 and 1
FactorsIncrease ==
    \A p1, p2 \in Persistence :
        p1 < p2 =>
            /\ StreamDecayFactor(p1) < StreamDecayFactor(p2)
            /\ StreamDecayFactor(p1) > 0
            /\ StreamDecayFactor(p2) < Unit

\* C13 (as claimed): for all settings p1 < p2 of Stream Persistence the decay
\* factor at p2 is strictly larger than at p1, both lie strictly between 0 and
\* 1, and a cell left to decay from the same energy is, after any number of
\* frames, nowhere lower at p2 than at p1.
C13_PersistenceMonotone ==
    /\ FactorsIncrease
    /\ ProbeQuiet =>
          \A p1 \in Persistence :
              probe.sf = StreamDecayFactor(p1) =>
                  \A p2 \in (p1 + 1)..MAX_SETTING :
                      Decayed(probe.tr[1], StreamDecayFactor(p2), probe.bf,
                              ProbeK) >= probe.tr[ProbeK + 1]

\* C14 (as claimed): every cell that is a rain head on a frame is drawn in one
\* fixed bright colour, white, whatever the colour mode and the cell's luma,
\* structure and energy.
C14_RainHeadsWhite ==
    \A i \in Drawn : screen[i].isRainHead => screen[i].rgb = White

\* C15 (as claimed): every emitted colour channel of every cell is an integer
\* in [0, 255], in either colour mode and either build.
C15_ChannelsAreBytes ==
    \A i \in Drawn : \A k \in 1..3 :
        screen[i].rgb[k] >= 0 /\ screen[i].rgb[k] <= 255

\* C16 (as claimed): after the luminance pass of every processed frame every
\* cell of the Luma Grid and of the Previous Luma Grid is in [0, 1].
C16_LumaInRange ==
    /\ \A i \in 1..Len(currentLuma) :
          currentLuma[i] >= 0 /\ currentLuma[i] <= Unit
    /\ \A i \in 1..Len(prevLuma) : prevLuma[i] >= 0 /\ prevLuma[i] <= Unit

\* C17 (as claimed): while a cell decays, the factor applied on a frame it
\* enters above the high-energy threshold is larger than the factor applied
\* on a frame it enters at or below the threshold, for every persistence
\* setting: the energy kept over the first kind of frame, tr[j+1] / tr[j], is
\* greater than that kept over the second.
C17_StreamDecaysSlower ==
    ProbeQuiet =>
        \A j, k \in 1..ProbeK :
            (probe.tr[j] > HIGH_ENERGY /\ probe.tr[k] <= HIGH_ENERGY
             /\ probe.tr[k] > 0)
                => probe.tr[j + 1] * probe.tr[k] > probe.tr[k + 1] * probe.tr[j]

\* The probed cell as pass 2 sees it
CellLumaNorm == MathPow(Luma709(cellProbe.px), cellProbe.gamma)
CellStructure == Structure(CellLumaNorm, cellProbe.frameTick)
CellEntry == bayerMatrix[(cellProbe.cy % 4) + 1][(cellProbe.cx % 4) + 1]
CellInRain ==
    /\ cellProbe.dropY - 10 * cellProbe.cy > 0
    /\ cellProbe.dropY - 10 * cellProbe.cy < RAIN_TRAIL
CellHot == cellProbe.e > GLYPH_ENERGY
CellOnEdge == cellProbe.edge > GLYPH_EDGE

\* C18: in the energy/rain build every cell whose edge value exceeds the edge
\* threshold has a non-blank glyph, whatever its energy, rain state and
\* structure, and the glyph is "1" when the cell has neither high energy nor
\* rain.
C18_EdgesNeverDisappear ==
    (cellProbe.drawn /\ CellOnEdge) =>
        /\ cellProbe.out.char # " "
        /\ (~CellHot /\ ~CellInRain) => cellProbe.out.char = "1"

\* C18 witness: a black cell on an edge, without energy and outside the rain,
\* is drawn as "1"
C18_Witness ==
    /\ cellProbe.drawn
    /\ CellOnEdge
    /\ cellProbe.px = Black
    /\ cellProbe.e = 0
    /\ ~CellInRain
    /\ cellProbe.out.char = "1"

\* The three glyphs the selection chooses between for the probed cell
CellDither == IF 16 * CellLumaNorm > CellEntry * Unit THEN "1" ELSE "0"
CellPattern ==
    IF ((cellProbe.cy * BayerSize + cellProbe.cx + cellProbe.frameTick) \div 4)
           % 2 = 1
    THEN "1" ELSE "0"
CellPlain == IF CellOnEdge THEN "1" ELSE TierGlyph(CellStructure, CellEntry)

\* C19: glyph selection follows a strict priority order: a cell with energy
\* above the high threshold gets the Bayer-dithered glyph (threshold entry at
\* row mod 4, col mod 4) even when it is in a rain trail or on an edge;
\* otherwise a cell in a rain trail gets the alternating pattern glyph even
\* when it is on an edge; only a cell with neither gets the edge or
\* structure-tier glyph.  The glyph is always "0", "1" or blank.
C19_GlyphPriority ==
    cellProbe.drawn =>
        /\ cellProbe.out.char \in {"0", "1", " "}
        /\ CellHot => cellProbe.out.char = CellDither
        /\ (~CellHot /\ CellInRain) => cellProbe.out.char = CellPattern
        /\ (~CellHot /\ ~CellInRain) => cellProbe.out.char = CellPlain

\* C19 witness: a cell with high energy, in a rain trail and on an edge, whose
\* dithered glyph differs from the glyph the rain pattern would give
C19_Witness ==
    /\ cellProbe.drawn
    /\ CellHot
    /\ CellInRain
    /\ CellOnEdge
    /\ CellDither # CellPattern
    /\ cellProbe.out.char = "0"

\* The energy held by the cells of column c (1-based) of the Energy Grid
ColumnEnergy(c) ==
    SumSeq([r \in 1..GridRows |-> energy[(r - 1) * GridCols + c]])

\* C20 (as claimed): of two rain columns at the same position, the one whose
\* cells hold more energy has advanced strictly further after the frame.
C20_EnergySpeedsRain ==
    [][ (/\ variant = "A"
         /\ PassRan
         /\ Len(drops) = GridCols
         /\ Len(energy) = GridCols * GridRows
         /\ Len(drops') = Len(drops))
        => \A c1, c2 \in 1..Len(drops) :
              (/\ drops[c1] = drops[c2]
               /\ ColumnEnergy(c1) > ColumnEnergy(c2)
               /\ drops'[c1] > drops[c1]
               /\ drops'[c2] > drops[c2])
                  => drops'[c1] > drops'[c2]
      ]_vars


\* C21: after every processed frame the exposure gain lies in [0.7, 1.5], and
\* the frame's adjustment moves it toward the target: the gain does not
\* decrease when the frame's signal mean is below the target mean 0.45 and
\* does not increase when the mean is above it.
C21_GainTracksTarget ==
    [][ (variant = "B" /\ PassRan /\ lastPass' = "frame")
        => /\ cal'.exposureGain >= GAIN_MIN
           /\ cal'.exposureGain <= GAIN_MAX
           /\ cal'.signalMean < TARGET_MEAN
                 => cal'.exposureGain >= cal.exposureGain
           /\ cal'.signalMean > TARGET_MEAN
                 => cal'.exposureGain <= cal.exposureGain
      ]_vars

\* C21 witness: a frame darker than the target has been processed at the top
\* of the range, where the clamp holds the gain
C21_Witness ==
    /\ variant = "B"
    /\ lastPass = "frame"
    /\ frameCount >= 2
    /\ cal.signalMean < TARGET_MEAN
    /\ cal.exposureGain = GAIN_MAX


SettingChanged ==
    /\ variant = "A"
    /\ props' # props
    /\ props'.gridSize = props.gridSize

\* The buffers hold the grid of the present geometry
Allocated ==
    /\ Len(energy) = Cols(props) * Rows(props)
    /\ Len(prevLuma) = Len(energy)
    /\ Len(drops) = Cols(props)

\* C29 (as claimed): a change of the persistence, decay, sensitivity or
\* colour-mode setting under an unchanged grid geometry restarts the render
\* loop and leaves the Energy Grid, the previous-luma grid, the rain columns
\* and the frame counter exactly as they were.
C29_SettingsKeepBuffers ==
    [][ SettingChanged
        => /\ effGen' = effGen + 1
           /\ UNCHANGED <<energy, prevLuma, drops, frameCount>>
      ]_vars

\* C29 (amended): the change restarts the render loop without reallocating or
\* resetting a buffer.  The restarted effect runs one render pass at once: on
\* a source that is not ready it leaves the four exactly as they were; on a
\* ready source it processes one frame with the new parameters, from the
\* values the buffers held: every energy is one update of the cell's old
\* energy against its old previous luma, every rain column has advanced one
\* step from where it was (or has left the grid and re-entered above it), and
\* the frame counter is one higher.
C29_SettingsContinueBuffers ==
    [][ SettingChanged
        => /\ effGen' = effGen + 1
           /\ PassRan
           /\ IF ~Ready(props')
              THEN UNCHANGED <<energy, prevLuma, drops, frameCount>>
              ELSE /\ frameCount' = frameCount + 1
                   /\ Allocated =>
                        /\ Len(energy') = Len(energy)
                        /\ Len(drops') = Len(drops)
                        /\ prevLuma' = currentLuma'
                        /\ \A i \in 1..Len(energy) :
                              energy'[i] =
                                EnergyStep(energy[i], currentLuma'[i],
                                    prevLuma[i],
                                    StreamDecayFactor(
                                        props'.streamTrailDecayScale),
                                    BaseDecay(props'.decayScale))
                        /\ \A c \in 1..Len(drops) :
                              \/ drops'[c] = drops[c] + DROP_SPEED
                              \/ /\ drops[c] + DROP_SPEED > Rows(props') * 10
                                 /\ drops'[c] <= -RESET_OFFSET
                                 /\ drops'[c] >= -RESET_OFFSET - RESET_JITTER
      ]_vars

\* C29 witness: after a change of the persistence setting on an allocated
\* grid, a cell holds an energy it could not have risen to from zero in the
\* one frame of the restarted effect
C29_Witness ==
    /\ variant = "A"
    /\ effGen = MaxEffects
    /\ props.streamTrailDecayScale # DefaultProps.streamTrailDecayScale
    /\ lastPass = "frame"
    /\ animationRef \in { cb.id : cb \in { x \in rafPending : x.gen = effGen } }
    /\ \E i \in 1..Len(energy) : energy[i] > attack


\* C30 (as claimed): on every processed frame the motion delta of a cell is the
\* absolute difference between its luma on this frame and on the preceding
\* processed frame, and on the first frame after the buffers are allocated,
\* which has no preceding frame, there is no motion: the energy of a cell is
\* one update against that previous luma (the cell's own luma on a first
\* frame), and the motion history of the calibrated build takes that delta.
C30_MotionIsFrameDelta ==
    [][ (PassRan /\ lastPass' = "frame" /\ Len(currentLuma') > 0)
        => LET first == Len(prevLuma) # Len(currentLuma')
               before(i) == IF first THEN currentLuma'[i] ELSE prevLuma[i]
               delta(i) == Abs(currentLuma'[i] - before(i))
           IN  \A i \in 1..Len(currentLuma') :
                 IF variant = "A"
                 THEN energy'[i] =
                        EnergyStep(IF first THEN 0 ELSE energy[i],
                                   currentLuma'[i], before(i),
                                   StreamDecayFactor(props'.streamTrailDecayScale),
                                   BaseDecay(props'.decayScale))
                 ELSE cal'.motionHistory[i] =
                        NextMotionHistory(IF first THEN 0
                                          ELSE cal.motionHistory[i], delta(i))
      ]_vars


\* The cap of the App's log list
LogCap == IF app.build = "panel" THEN PANEL_CAP ELSE KEEP_LAST + 1

\* C28: after any sequence of addLog calls the log list never exceeds its cap
\* (50 in the full App, 100 in the settings-panel App), ends with the entry
\* added last and holds the most recent entries in the order they were
\* added: only the oldest are dropped.
C28_LogIsCapped ==
    /\ Len(app.logs) <= LogCap
    /\ Len(app.logs) = Min(app.logged, LogCap)
    /\ \A i \in 1..Len(app.logs) :
          app.logs[i].id = app.logged - Len(app.logs) + i

\* C28 witness: the panel App has dropped its oldest entry
C28_Witness ==
    /\ app.build = "panel"
    /\ app.logged > PANEL_CAP
    /\ Len(app.logs) = PANEL_CAP
    /\ app.logs[1].id > 1


\* C23 (as claimed): every scan started from IDLE sets the mode to SCANNING,
\* then ANALYZING, and returns it to IDLE, also when no snapshot is available
\* and when the analysis call fails: once the scan's task has ended, by
\* returning or by a rejection, the mode is IDLE again and the scan has set
\* the three modes in that order; and a request made while the mode is not
\* IDLE changes nothing.
C23_ScanReturnsToIdle ==
    /\ app.scan = "timer" => app.mode = "SCANNING"
    /\ app.scan = "await" => app.mode = "ANALYZING"
    /\ (app.scan \in {"none", "rejected"}) =>
          /\ app.mode = "IDLE"
          /\ app.trail \in {<<>>, <<"SCANNING", "ANALYZING", "IDLE">>}


-----------------------------------------------------------------------------
\* C24: after any camera selections, unmounts and acquisitions settling in
\* any order, a stream given to an initialisation that was already
\* superseded or unmounted is stopped and has never been the video element's
\* srcObject, no stream of a cancelled initialisation is live, and at most
\* one stream is live, so at most one live stream is attached.
LiveStreams == { i \in 1..Len(cam.inits) : cam.inits[i].stream = "live" }

C24_SupersededStreamsStopped ==
    /\ \A i \in 1..Len(cam.inits) :
         /\ cam.inits[i].late =>
                /\ cam.inits[i].stream = "stopped"
                /\ ~cam.inits[i].attached
                /\ cam.srcObject # i
         /\ cam.inits[i].isCancelled => cam.inits[i].stream # "live"
    /\ Cardinality(LiveStreams) <= 1

\* A superseded initialisation's stream was stopped unattached while the
\* current initialisation's stream is live on the video element
C24_Witness ==
    /\ cam.phase = "live"
    /\ \E i \in 1..(Len(cam.inits) - 1) : cam.inits[i].late
    /\ cam.srcObject = Len(cam.inits)
    /\ cam.srcObject \in LiveStreams

-----------------------------------------------------------------------------
\* C25: an initialisation whose effect was cleaned up before its acquisition
\* settled never sets the camera error: the step in which a cancelled
\* initSensors call reaches its catch block leaves cameraError as it was.
C25_CancelledInitSetsNoError ==
    [][ \A i \in 1..Len(cam.inits) :
          /\ cam.inits[i].isCancelled
          /\ cam.inits[i].at # "failed"
          /\ cam'.inits[i].at = "failed"
          => cam'.cameraError = cam.cameraError ]_vars

-----------------------------------------------------------------------------
\* C26: once a camera is selected, by default or by the user, no device
\* refresh changes the selection: a step in which a refreshDevices call
\* settles, whatever called it, leaves a non-empty selectedCamera as it was.
C26_RefreshKeepsSelection ==
    [][ /\ BagCardinality(app'.refreshes) < BagCardinality(app.refreshes)
        /\ app.selectedCamera # ""
        => app'.selectedCamera = app.selectedCamera ]_vars


-----------------------------------------------------------------------------
\* C27: after any record-button toggles, isRecording is true exactly when
\* mediaRecorderRef holds a recorder; stopRecording resolves null exactly
\* when it found no recorder, else a blob of the chunks of the recorder it
\* stopped and of no other; and with no recorder held or winding down the
\* chunk list is empty.
WindingDown ==
    { k \in 1..Len(rec.recorders) : rec.recorders[k].state = "stopping" }

C27_BlobsAreExact ==
    /\ \A n \in 1..Len(rec.results) :
         LET result == rec.results[n]
         IN  /\ result.null <=> result.of = 0
             /\ \A c \in 1..Len(result.chunks) :
                   result.chunks[c].from = result.of
    /\ rec.mediaRecorder = 0 /\ WindingDown = {} => rec.recordedChunks = <<>>

C27_RecordingMatchesRecorder ==
    /\ app.isRecording <=> rec.mediaRecorder # 0
    /\ C27_BlobsAreExact

====
